---- MODULE Spec2Model ----
(***************************************************************************)
(* Tile-maze painter: the Level class (src/level.js) and the sketch that   *)
(* orchestrates it (src/sketch.js).                                        *)
(*                                                                         *)
(* JavaScript arrays are objects: a grid is an array of references to row  *)
(* arrays.  The model keeps the rows in a heap (a sequence of rows indexed *)
(* by address) and a grid is a sequence of row addresses, so that aliasing *)
(* between the raw JSON data and a Level's grid is visible.                *)
(*                                                                         *)
(* Three specifications:                                                   *)
(*   Spec           the sketch: setup, mousePressed, nextLevel, draw       *)
(*   SpecConstruct  new Level(grid, ts) over every small grid              *)
(*   SpecClick      handleClick on one Level, over every small grid shape, *)
(*                  several tile sizes and every pixel                     *)
(***************************************************************************)
EXTENDS Integers, Sequences, FiniteSets

VARIABLES
  heap,        \* row arrays by address (shared by both specifications)
  levelsData,  \* sketch.js: raw JSON, levelsData.levels (grids of row addresses)
  levels,      \* sketch.js: array of Level objects
  li,          \* sketch.js: current level index
  player,      \* sketch.js: the Player object
  canvas,      \* size last given to resizeCanvas
  pc,          \* "preload" (before setup) | "run" (after setup) | "unit"
  arg,         \* the arguments given to new Level(grid, tileSize)
  lv,          \* the Level object under study
  mouse        \* SpecClick: the arguments of the last handleClick call

vars == <<heap, levelsData, levels, li, player, canvas, pc, arg, lv, mouse>>

----------------------------------------------------------------------------
(* Program constants *)

TS == 32

FLOOR == 0
WALL == 1
START == 2
GOAL == 3

PAINT_FILL == 0
FLOOR_FILL == 232

(* Bounds of the model *)

MaxLevels == 2       \* levels in levels.json (Spec)
MaxCells == 6        \* cells of a grid (SpecConstruct)
MaxClickCells == 4   \* cells of a grid (SpecClick)
MaxTileSize == 2     \* tile sizes 1..MaxTileSize (SpecConstruct, SpecClick)

Tiles == {FLOOR, WALL, START, GOAL}

\* JavaScript null / undefined
Null == [null |-> TRUE]

----------------------------------------------------------------------------
(* Level (src/level.js) *)

rows(h, level) == Len(level.grid)

cols(h, level) == Len(h[level.grid[1]])

pixelWidth(h, level) == cols(h, level) * level.ts

pixelHeight(h, level) == rows(h, level) * level.ts

inBoundsOffByOne(h, level, r, c) ==
  r >= 0 /\ c >= 0 /\ r <= rows(h, level) /\ c <= cols(h, level)

inBounds(h, level, r, c) ==
  r >= 0 /\ c >= 0 /\ r < rows(h, level) /\ c < cols(h, level)

\* JavaScript indexes from 0, the sequences from 1.
tileAt(h, level, r, c) == h[level.grid[r + 1]][c + 1]

isWall(h, level, r, c) == tileAt(h, level, r, c) = WALL

isGoal(h, level, r, c) == tileAt(h, level, r, c) = GOAL

\* The two nested loops of findStart, from position (r, c) on.
RECURSIVE scanStart(_, _, _, _)
scanStart(h, level, r, c) ==
  IF r >= rows(h, level) THEN Null
  ELSE IF c >= cols(h, level) THEN scanStart(h, level, r + 1, 0)
  ELSE IF h[level.grid[r + 1]][c + 1] = START THEN [r |-> r, c |-> c]
  ELSE scanStart(h, level, r, c + 1)

\* A scan that keeps going and returns the last start tile.
RECURSIVE scanLast(_, _, _, _, _)
scanLast(h, level, r, c, found) ==
  IF r >= rows(h, level) THEN found
  ELSE IF c >= cols(h, level) THEN scanLast(h, level, r + 1, 0, found)
  ELSE IF h[level.grid[r + 1]][c + 1] = START
       THEN scanLast(h, level, r, c + 1, [r |-> r, c |-> c])
  ELSE scanLast(h, level, r, c + 1, found)

findStartLast(h, level) == scanLast(h, level, 0, 0, Null)

findStart(h, level) == scanStart(h, level, 0, 0)

\* this.grid[r][c] = v: an in-place write to the row array.
setTile(h, grid, r, c, v) ==
  [h EXCEPT ![grid[r + 1]] = [@ EXCEPT ![c + 1] = v]]

\* A constructor that leaves the start tile in the grid.
LevelKeepStart(h, grid, tileSize) ==
  LET this == [grid |-> grid, ts |-> tileSize, start |-> Null,
               clickedTiles |-> {}]
      s == findStart(h, this)
  IN  [heap |-> h, obj |-> [this EXCEPT !.start = s]]

\* new Level(grid, tileSize): the object and the heap after the constructor.
Level(h, grid, tileSize) ==
  LET this == [grid |-> grid, ts |-> tileSize, start |-> Null,
               clickedTiles |-> {}]
      s == findStart(h, this)
  IN  [heap |-> IF s # Null THEN setTile(h, grid, s.r, s.c, FLOOR) ELSE h,
       obj  |-> [this EXCEPT !.start = s]]

\* String(n) for an integer n >= 0, as a sequence of characters.
Digit == <<"0", "1", "2", "3", "4", "5", "6", "7", "8", "9">>

RECURSIVE ToStr(_)
ToStr(n) ==
  IF n < 10 THEN <<Digit[n + 1]>> ELSE ToStr(n \div 10) \o <<Digit[(n % 10) + 1]>>

\* The template literal `${r},${c}`.
tileKey(r, c) == ToStr(r) \o <<",">> \o ToStr(c)

\* Math.floor(a / b) for integers a and b > 0.
floorDiv(a, b) == a \div b

\* handleClick that only ever paints.
handleClickPaintOnly(h, level, mouseX, mouseY) ==
  LET c == floorDiv(mouseX, level.ts)
      r == floorDiv(mouseY, level.ts)
  IN  IF inBounds(h, level, r, c)
      THEN [level EXCEPT !.clickedTiles = @ \cup {tileKey(r, c)}]
      ELSE level

\* handleClick with the axes swapped.
handleClickSwapped(h, level, mouseX, mouseY) ==
  LET c == floorDiv(mouseY, level.ts)
      r == floorDiv(mouseX, level.ts)
  IN  IF inBounds(h, level, r, c)
      THEN IF tileKey(r, c) \in level.clickedTiles
           THEN [level EXCEPT !.clickedTiles = @ \ {tileKey(r, c)}]
           ELSE [level EXCEPT !.clickedTiles = @ \cup {tileKey(r, c)}]
      ELSE level

\* handleClick(mouseX, mouseY): the Level object after the call.
handleClick(h, level, mouseX, mouseY) ==
  LET c == floorDiv(mouseX, level.ts)
      r == floorDiv(mouseY, level.ts)
  IN  IF inBounds(h, level, r, c)
      THEN IF tileKey(r, c) \in level.clickedTiles
           THEN [level EXCEPT !.clickedTiles = @ \ {tileKey(r, c)}]
           ELSE [level EXCEPT !.clickedTiles = @ \cup {tileKey(r, c)}]
      ELSE level

\* Level.draw(): the rect calls it issues, in order, each with the fill in
\* force when it is issued.  The tile value v is read and not used.
Level_draw(h, level) ==
  LET nc == cols(h, level)
      n  == rows(h, level) * nc
  IN  [i \in 1..n |->
        LET r == (i - 1) \div nc
            c == (i - 1) % nc
        IN  [x |-> c * level.ts, y |-> r * level.ts,
             w |-> level.ts, h |-> level.ts,
             fill |-> IF tileKey(r, c) \in level.clickedTiles
                      THEN PAINT_FILL ELSE FLOOR_FILL]]

----------------------------------------------------------------------------
(* Player (Player.js, not among the sources: position only) *)

Player(tileSize) == [ts |-> tileSize, r |-> 0, c |-> 0]

setCell(p, r, c) == [p EXCEPT !.r = r, !.c = c]

----------------------------------------------------------------------------
(* Sketch (src/sketch.js) *)

\* grid.slice(): a new outer array holding the same row arrays.
copyGridShallow(h, grid) == [heap |-> h, grid |-> grid]

\* copyGrid(grid) = grid.map((row) => row.slice()): every row is copied to
\* a fresh address.
copyGrid(h, grid) ==
  [heap |-> h \o [i \in 1..Len(grid) |-> h[grid[i]]],
   grid |-> [i \in 1..Len(grid) |-> Len(h) + i]]

\* levelsData.levels.map((grid) => new Level(copyGrid(grid), TS)), from
\* element i on; acc holds the Levels built so far.
RECURSIVE mapLevels(_, _, _, _)
mapLevels(h, data, i, acc) ==
  IF i > Len(data) THEN [heap |-> h, levels |-> acc]
  ELSE LET cp  == copyGrid(h, data[i])
           new == Level(cp.heap, cp.grid, TS)
       IN  mapLevels(new.heap, data, i + 1, Append(acc, new.obj))

\* loadLevel(idx): li, the player and the canvas after the call.
loadLevel(h, lvls, plr, idx) ==
  LET level == lvls[idx + 1]
  IN  [li     |-> idx,
       player |-> IF level.start # Null
                  THEN setCell(plr, level.start.r, level.start.c)
                  ELSE setCell(plr, 1, 1),
       canvas |-> [w |-> pixelWidth(h, level), h |-> pixelHeight(h, level)]]

\* nextLevel that forgets to advance.
nextLevelStuck(h, lvls, plr, cur) ==
  loadLevel(h, lvls, plr, cur % Len(lvls))

\* nextLevel(): wraps around after the last level.
nextLevel(h, lvls, plr, cur) ==
  loadLevel(h, lvls, plr, (cur + 1) % Len(lvls))

\* mousePressed that always clicks the first level.
mousePressedFirst(h, lvls, cur, mouseX, mouseY) ==
  [lvls EXCEPT ![1] = handleClick(h, @, mouseX, mouseY)]

\* mousePressed(): levels[li].handleClick(mouseX, mouseY).
mousePressed(h, lvls, cur, mouseX, mouseY) ==
  [lvls EXCEPT ![cur + 1] = handleClick(h, @, mouseX, mouseY)]

\* draw() and drawHUD(): what one frame shows.  The calls go to the canvas;
\* none of the program's variables is written.
draw(h, lvls, cur) ==
  [tiles |-> Level_draw(h, lvls[cur + 1]),
   hud   |-> <<cur + 1, Len(lvls)>>]

----------------------------------------------------------------------------
(* Inputs.  levels.json is taken to be well formed: at least one level,    *)
(* every grid rectangular with at least one row and one column, every tile *)
(* one of the four legend values.  Mouse positions and tile sizes are      *)
(* integers.                                                               *)

\* Grids that levels.json may hold (Spec): with a start tile, without one,
\* without one and too small for the fallback cell, with two start tiles.
SampleGrids ==
  { << <<WALL, START>>, <<FLOOR, GOAL>> >>,
    << <<FLOOR, WALL>>, <<GOAL, FLOOR>> >>,
    << <<GOAL, WALL>> >>,
    << <<START>>, <<START>> >> }

LevelFiles == UNION {[1..n -> SampleGrids] : n \in 1..MaxLevels}

\* The shapes (rows, columns) of at most n cells.
Shapes(n) == {d \in (1..n) \X (1..n) : d[1] * d[2] <= n}

\* Every rectangular grid of at most MaxCells cells (SpecConstruct).
AllGrids == UNION {[1..d[1] -> [1..d[2] -> Tiles]] : d \in Shapes(MaxCells)}

\* One grid of every shape of at most MaxClickCells cells (SpecClick):
\* handleClick reads the lengths of the arrays and none of the tile values.
FloorGrids == UNION {[1..d[1] -> [1..d[2] -> {FLOOR}]] : d \in Shapes(MaxClickCells)}

\* The rows of a file's grids, laid out one after the other.
RECURSIVE flatten(_)
flatten(file) ==
  IF file = <<>> THEN <<>> ELSE file[1] \o flatten(Tail(file))

\* The address of row j of grid i of a file laid out by flatten.
RECURSIVE rowsBefore(_, _)
rowsBefore(file, i) ==
  IF i = 1 THEN 0 ELSE rowsBefore(file, i - 1) + Len(file[i - 1])

addresses(file) ==
  [i \in 1..Len(file) |-> [j \in 1..Len(file[i]) |-> rowsBefore(file, i) + j]]

\* Mouse positions tried on a side of n tiles of size ts: the first and last
\* pixel of every tile, and one pixel outside on either side.
edgePixels(n, ts) == {k * ts - 1 : k \in 0..n} \cup {k * ts : k \in 0..n}

\* Every pixel of a side of n tiles of size ts, and one outside either way.
allPixels(n, ts) == (-1)..(n * ts)

----------------------------------------------------------------------------
(* Spec: the sketch *)

Init ==
  \E file \in LevelFiles :
    /\ heap = flatten(file)
    /\ levelsData = addresses(file)
    /\ levels = <<>>
    /\ li = 0
    /\ player = Null
    /\ canvas = Null
    /\ pc = "preload"
    /\ arg = Null
    /\ lv = Null
    /\ mouse = Null

Setup ==
  /\ pc = "preload"
  /\ LET built == mapLevels(heap, levelsData, 1, <<>>)
         ld    == loadLevel(built.heap, built.levels, Player(TS), 0)
     IN  /\ heap' = built.heap
         /\ levels' = built.levels
         /\ li' = ld.li
         /\ player' = ld.player
         /\ canvas' = ld.canvas
  /\ pc' = "run"
  /\ UNCHANGED <<levelsData, arg, lv, mouse>>

MousePressed ==
  /\ pc = "run"
  /\ \E mouseX \in edgePixels(cols(heap, levels[li + 1]), TS),
        mouseY \in edgePixels(rows(heap, levels[li + 1]), TS) :
       levels' = mousePressed(heap, levels, li, mouseX, mouseY)
  /\ UNCHANGED <<heap, levelsData, li, player, canvas, pc, arg, lv, mouse>>

NextLevel ==
  /\ pc = "run"
  /\ LET ld == nextLevel(heap, levels, player, li)
     IN  /\ li' = ld.li
         /\ player' = ld.player
         /\ canvas' = ld.canvas
  /\ UNCHANGED <<heap, levelsData, levels, pc, arg, lv, mouse>>

\* A frame is drawn from the current state, which it leaves as it is.
Draw ==
  /\ pc = "run"
  /\ DOMAIN draw(heap, levels, li) = {"tiles", "hud"}
  /\ UNCHANGED vars

Next == Setup \/ MousePressed \/ NextLevel \/ Draw

Spec == Init /\ [][Next]_vars

----------------------------------------------------------------------------
(* SpecConstruct and SpecClick: one Level object *)

InitUnit(grids) ==
  \E g \in grids, ts \in 1..MaxTileSize :
    /\ heap = g
    /\ arg = [grid |-> [j \in 1..Len(g) |-> j], ts |-> ts]
    /\ lv = Null
    /\ mouse = Null
    /\ pc = "unit"
    /\ levelsData = <<>>
    /\ levels = <<>>
    /\ li = 0
    /\ player = Null
    /\ canvas = Null

Construct ==
  /\ pc = "unit"
  /\ lv = Null
  /\ LET new == Level(heap, arg.grid, arg.ts)
     IN  /\ heap' = new.heap
         /\ lv' = new.obj
  /\ UNCHANGED <<levelsData, levels, li, player, canvas, pc, arg, mouse>>

HandleClick ==
  /\ pc = "unit"
  /\ lv # Null
  /\ \E mouseX \in allPixels(cols(heap, lv), lv.ts),
        mouseY \in allPixels(rows(heap, lv), lv.ts) :
       /\ lv' = handleClick(heap, lv, mouseX, mouseY)
       /\ mouse' = [x |-> mouseX, y |-> mouseY]
  /\ UNCHANGED <<heap, levelsData, levels, li, player, canvas, pc, arg>>

InitConstruct == InitUnit(AllGrids)

NextConstruct == Construct

SpecConstruct == InitConstruct /\ [][NextConstruct]_vars

InitClick == InitUnit(FloorGrids)

NextClick == Construct \/ HandleClick

SpecClick == InitClick /\ [][NextClick]_vars

----------------------------------------------------------------------------
(* Vocabulary of the properties *)

\* The cells (r, c) of a level, as pairs.
Cells(h, level) ==
  (0..(rows(h, level) - 1)) \X (0..(cols(h, level) - 1))

\* The cells whose square of side ts holds the pixel (x, y): one or none.
CellsAt(h, level, x, y) ==
  {cell \in Cells(h, level) :
     /\ cell[2] * level.ts <= x /\ x < (cell[2] + 1) * level.ts
     /\ cell[1] * level.ts <= y /\ y < (cell[1] + 1) * level.ts}

Painted(level, cell) == tileKey(cell[1], cell[2]) \in level.clickedTiles

\* The cells of a grid (h, grid) that hold the start value.
StartCells(h, grid) ==
  {cell \in (0..(Len(grid) - 1)) \X (0..(Len(h[grid[1]]) - 1)) :
     h[grid[cell[1] + 1]][cell[2] + 1] = START}

\* cell a comes no later than cell b in row-major order.
RowMajorLeq(a, b) == a[1] < b[1] \/ (a[1] = b[1] /\ a[2] <= b[2])

\* The values of a grid, row by row.
Values(h, grid) == [j \in 1..Len(grid) |-> h[grid[j]]]

\* The values of the raw JSON data.
RawData == [i \in 1..Len(levelsData) |-> Values(heap, levelsData[i])]

Built == pc = "unit" /\ lv # Null

----------------------------------------------------------------------------
(* C1: handleClick toggles the paint state of the clicked tile.  For every  *)
(* pixel that lies in an in-bounds cell, one call flips the membership of   *)
(* that cell in clickedTiles, changes exactly one key, leaves every other   *)
(* cell as it was, and a second click at the same pixel restores the set.   *)
C1_ClickToggles ==
  [][(lv # Null /\ lv' # Null) =>
       LET x == mouse'.x
           y == mouse'.y
       IN  \A cell \in CellsAt(heap, lv, x, y) :
             /\ Painted(lv', cell) = ~Painted(lv, cell)
             /\ \A other \in Cells(heap, lv) \ {cell} :
                  Painted(lv', other) = Painted(lv, other)
             /\ Cardinality((lv'.clickedTiles \ lv.clickedTiles) \cup
                            (lv.clickedTiles \ lv'.clickedTiles)) = 1
             /\ handleClick(heap', lv', x, y).clickedTiles = lv.clickedTiles
    ]_vars

\* The tile clicked last is unpainted (so it was clicked at least twice)
\* while another tile is painted.
C1_Witness ==
  /\ Built
  /\ mouse # Null
  /\ CellsAt(heap, lv, mouse.x, mouse.y) # {}
  /\ \A cell \in CellsAt(heap, lv, mouse.x, mouse.y) : ~Painted(lv, cell)
  /\ \E a \in Cells(heap, lv), b \in Cells(heap, lv) :
       Painted(lv, a) /\ ~Painted(lv, b)

(* C2: findStart returns the first cell in row-major order that holds the   *)
(* start value, and null exactly when no cell of the grid holds it.         *)
C2_FindStartFirst ==
  [][(pc = "unit" /\ lv = Null /\ lv' # Null) =>
       LET S == StartCells(heap, arg.grid)
       IN  /\ (lv'.start = Null) <=> (S = {})
           /\ S # {} =>
                /\ <<lv'.start.r, lv'.start.c>> \in S
                /\ \A cell \in S : RowMajorLeq(<<lv'.start.r, lv'.start.c>>, cell)
    ]_vars

\* A level built from a grid with several start tiles: one was found, another
\* is still in the grid.
C2_Witness ==
  /\ Built
  /\ lv.start # Null
  /\ StartCells(heap, lv.grid) # {}

(* C3: after loadLevel the player stands on the level's start cell when it  *)
(* has one and on the fallback cell (1,1) otherwise, and in both cases that *)
(* cell is inside the bounds of the level.                                  *)
C3_PlayerInBounds ==
  pc = "run" =>
    LET level == levels[li + 1]
    IN  /\ level.start # Null =>
             player.r = level.start.r /\ player.c = level.start.c
        /\ level.start = Null => player.r = 1 /\ player.c = 1
        /\ inBounds(heap, level, player.r, player.c)

(* C4: nextLevel cycles the level index with wrap-around.  setup leaves     *)
(* li = 0; li always indexes a level; each nextLevel call moves li to       *)
(* (li + 1) mod levels.length, from the last level to level 0; and          *)
(* levels.length calls in a row bring li back.                              *)
RECURSIVE nextLevelTimes(_, _, _, _, _)
nextLevelTimes(h, lvls, plr, cur, k) ==
  IF k = 0 THEN cur
  ELSE LET ld == nextLevel(h, lvls, plr, cur)
       IN  nextLevelTimes(h, lvls, ld.player, ld.li, k - 1)

C4_NextLevelCycles ==
  [][/\ Setup => li' = 0
     /\ pc' = "run" =>
          /\ li' \in 0..(Len(levels') - 1)
          /\ nextLevel(heap', levels', player', li').li = (li' + 1) % Len(levels')
          /\ nextLevelTimes(heap', levels', player', li', Len(levels')) = li'
     /\ NextLevel =>
          /\ li' = (li + 1) % Len(levels)
          /\ li = Len(levels) - 1 => li' = 0
          /\ nextLevelTimes(heap', levels', player', li', Len(levels) - 1) = li
    ]_vars

\* Back on the first of two levels with tiles painted on the second: the
\* index went to the last level and wrapped around.
C4_Witness ==
  /\ pc = "run"
  /\ Len(levels) = 2
  /\ li = 0
  /\ levels[2].clickedTiles # {}

(* C5: the raw level data is never mutated by setup, clicks or level        *)
(* switches; the start value is still in the raw data where the Level's own *)
(* grid has it normalised to floor.                                         *)
C5_RawDataKept ==
  [][/\ RawData' = RawData
     /\ pc' = "run" =>
          \A i \in 1..Len(levels') :
            levels'[i].start # Null =>
              /\ heap'[levelsData'[i][levels'[i].start.r + 1]]
                      [levels'[i].start.c + 1] = START
              /\ tileAt(heap', levels'[i], levels'[i].start.r,
                        levels'[i].start.c) = FLOOR
    ]_vars

\* After setup, clicks and a level switch, with a level that had a start tile.
C5_Witness ==
  /\ pc = "run"
  /\ li > 0
  /\ \E i \in 1..Len(levels) :
       levels[i].start # Null /\ levels[i].clickedTiles # {}

(* C6: handleClick maps a pixel to the cell that contains it, x selecting   *)
(* the column and y the row: the one rectangle whose fill Level.draw        *)
(* changes after the click is the tile (c*ts, r*ts, ts, ts) with            *)
(* c*ts <= x < (c+1)*ts and r*ts <= y < (r+1)*ts.                           *)
C6_ClickMapsToCell ==
  [][(lv # Null /\ lv' # Null) =>
       LET x == mouse'.x
           y == mouse'.y
       IN  \A cell \in CellsAt(heap, lv, x, y) :
             LET before  == Level_draw(heap, lv)
                 after   == Level_draw(heap', lv')
                 changed == {i \in DOMAIN before : before[i] # after[i]}
             IN  /\ DOMAIN after = DOMAIN before
                 /\ Cardinality(changed) = 1
                 /\ \A i \in changed :
                      /\ after[i].x = cell[2] * lv.ts
                      /\ after[i].y = cell[1] * lv.ts
                      /\ after[i].w = lv.ts /\ after[i].h = lv.ts
                      /\ after[i].x <= x /\ x < after[i].x + after[i].w
                      /\ after[i].y <= y /\ y < after[i].y + after[i].h
                      /\ after[i].fill # before[i].fill
    ]_vars

\* With tiles wider than a pixel, a click on the last pixel of the tile of
\* row 0, column 1 has painted that tile and no other.
C6_Witness ==
  /\ Built
  /\ lv.ts > 1
  /\ mouse # Null
  /\ mouse.x = 2 * lv.ts - 1 /\ mouse.y = lv.ts - 1
  /\ <<0, 1>> \in Cells(heap, lv) /\ Painted(lv, <<0, 1>>)
  /\ \A cell \in Cells(heap, lv) \ {<<0, 1>>} : ~Painted(lv, cell)

(* C7: Level.draw follows its documented visual rules: an unpainted wall is *)
(* filled with a colour other than the floor fill, an unpainted goal tile   *)
(* gets an additional inset rectangle, a painted tile is drawn black.       *)
C7_DrawRules ==
  Built =>
    LET frame == Level_draw(heap, lv)
        tile(cell) == {i \in DOMAIN frame :
                         /\ frame[i].x = cell[2] * lv.ts
                         /\ frame[i].y = cell[1] * lv.ts
                         /\ frame[i].w = lv.ts /\ frame[i].h = lv.ts}
        inset(cell) == {i \in DOMAIN frame :
                          /\ frame[i].x > cell[2] * lv.ts
                          /\ frame[i].y > cell[1] * lv.ts
                          /\ frame[i].x + frame[i].w < (cell[2] + 1) * lv.ts
                          /\ frame[i].y + frame[i].h < (cell[1] + 1) * lv.ts}
    IN  \A cell \in Cells(heap, lv) :
          /\ tile(cell) # {}
          /\ Painted(lv, cell) => \A i \in tile(cell) : frame[i].fill = PAINT_FILL
          /\ ~Painted(lv, cell) =>
               /\ isWall(heap, lv, cell[1], cell[2]) =>
                    \A i \in tile(cell) : frame[i].fill # FLOOR_FILL
               /\ ~isWall(heap, lv, cell[1], cell[2]) =>
                    \A i \in tile(cell) : frame[i].fill = FLOOR_FILL
               /\ isGoal(heap, lv, cell[1], cell[2]) => inset(cell) # {}

(* C8: a click outside the grid changes nothing, and every key in           *)
(* clickedTiles names a cell inside the grid.                               *)
KeysInBounds(h, level) ==
  \A key \in level.clickedTiles :
    \E cell \in Cells(h, level) : key = tileKey(cell[1], cell[2])

C8_OutsideClickIgnored ==
  [][(lv # Null /\ lv' # Null) =>
       /\ (\/ mouse'.x < 0 \/ mouse'.y < 0
            \/ mouse'.x >= pixelWidth(heap, lv)
            \/ mouse'.y >= pixelHeight(heap, lv))
          => lv'.clickedTiles = lv.clickedTiles
       /\ KeysInBounds(heap', lv')
    ]_vars

\* The last click fell just right of a level whose tiles are all painted,
\* and clickedTiles holds those tiles and nothing else.
C8_Witness ==
  /\ Built
  /\ mouse # Null
  /\ mouse.x >= pixelWidth(heap, lv)
  /\ mouse.y >= 0 /\ mouse.y < pixelHeight(heap, lv)
  /\ \A cell \in Cells(heap, lv) : Painted(lv, cell)
  /\ Cardinality(lv.clickedTiles) = Cardinality(Cells(heap, lv))

(* C9: the constructor normalises the start tile to floor and nothing else: *)
(* start records what findStart found, the start cell holds floor (neither  *)
(* wall nor goal), every other cell keeps its value, clickedTiles is empty; *)
(* without a start tile start is null and no cell changes.                  *)
C9_ConstructorNormalises ==
  [][(pc = "unit" /\ lv = Null /\ lv' # Null) =>
       LET S   == StartCells(heap, arg.grid)
           old == Values(heap, arg.grid)
           new == Values(heap', lv'.grid)
       IN  /\ lv'.grid = arg.grid /\ lv'.ts = arg.ts
           /\ lv'.clickedTiles = {}
           /\ S = {} => lv'.start = Null /\ heap' = heap
           /\ S # {} =>
                /\ lv'.start # Null
                /\ <<lv'.start.r, lv'.start.c>> \in S
                /\ tileAt(heap', lv', lv'.start.r, lv'.start.c) = FLOOR
                /\ ~isWall(heap', lv', lv'.start.r, lv'.start.c)
                /\ ~isGoal(heap', lv', lv'.start.r, lv'.start.c)
                /\ \A cell \in Cells(heap, lv') \ {<<lv'.start.r, lv'.start.c>>} :
                     new[cell[1] + 1][cell[2] + 1] = old[cell[1] + 1][cell[2] + 1]
    ]_vars

\* A freshly built level whose start tile was found and turned into floor.
C9_Witness ==
  /\ Built
  /\ lv.start # Null
  /\ tileAt(heap, lv, lv.start.r, lv.start.c) = FLOOR
  /\ lv.clickedTiles = {}

(* C10: paint state is kept per level and survives level switching:         *)
(* mousePressed changes only the clickedTiles of levels[li], never another  *)
(* level's, nor a tile grid, nor li; nextLevel (through loadLevel) leaves   *)
(* every level's clickedTiles, and the levels altogether, unchanged.        *)
C10_PaintPerLevel ==
  [][pc = "run" =>
       /\ heap' = heap
       /\ Len(levels') = Len(levels)
       /\ \A i \in 1..Len(levels) :
            /\ levels'[i].grid = levels[i].grid
            /\ levels'[i].ts = levels[i].ts
            /\ levels'[i].start = levels[i].start
            /\ i # li + 1 => levels'[i].clickedTiles = levels[i].clickedTiles
       /\ levels' # levels => li' = li /\ player' = player
       /\ NextLevel => levels' = levels
    ]_vars

\* Two levels painted differently, the first one active again.
C10_Witness ==
  /\ pc = "run"
  /\ Len(levels) > 1
  /\ li = 0
  /\ levels[1].clickedTiles # {}
  /\ levels[2].clickedTiles # {}
  /\ levels[1].clickedTiles # levels[2].clickedTiles

====
